---- MODULE Spec2Model ----
(***************************************************************************)
(* Model of the NDR teletext reader (src/main.py): the Teletext object's   *)
(* navigation state (page, sub_page, current_input, page_info, history)    *)
(* and the key handlers that drive Teletext.load.                          *)
(*                                                                         *)
(* An exception that no handler catches leaves handle_events and exec_     *)
(* and ends the process; the model records it in `error` and moves to      *)
(* pc = "crashed", keeping the fields as the handler left them.            *)
(***************************************************************************)
EXTENDS Integers, Sequences, FiniteSets, TLC

(* ------------------------------ bounds --------------------------------- *)
\* digit keys offered to the model are 0..MaxDigit (the code accepts 0..9)
MaxDigit == 2
\* commands that push are offered while the history holds fewer entries
MaxHistory == 3
\* the ghost counter of processed key commands saturates here
MaxSteps == 4

(* ------------------------- program constants --------------------------- *)
START_PAGE == 100

\* Python's None for the sub_page argument of load (falsy, like 0)
NoSubPage == 0

(* ------------------------ the pages.js document ------------------------ *)
\* An entry of the listing is the result of a.split(':'): a sequence of
\* tokens. A token is [int |-> whether int() accepts it, v |-> its value].
Tok(n) == [int |-> TRUE, v |-> n]
BadTok == [int |-> FALSE, v |-> 0]
Entry(k, n) == <<Tok(k), Tok(n)>>

\* What urlopen(pages_url) can answer: a transport failure, or a document
\* whose {...} part splits into the given entries.
Responses ==
    { [ok |-> FALSE, entries |-> << >>],
      [ok |-> TRUE, entries |-> <<Entry(100, 2), Entry(101, 1), Entry(102, 2)>>],
      [ok |-> TRUE, entries |-> <<Entry(101, 2), Entry(102, 1)>>],
      [ok |-> TRUE, entries |-> <<Entry(100, 1), Entry(101, 0), Entry(102, 1)>>],
      [ok |-> TRUE, entries |-> <<Entry(100, 1), Entry(100, 2), Entry(101, 1)>>],
      [ok |-> TRUE, entries |-> <<Entry(100, 1), <<BadTok, Tok(1)>> >>],
      [ok |-> TRUE, entries |-> <<Entry(100, 1), <<Tok(101)>> >>] }

\* page_info is None, or a dict
NonePageInfo == [is_none |-> TRUE, dict |-> << >>]

\* list(map(int, a.split(':'))) raises ValueError on a non-integer token;
\* dict(...) raises on an element that is not a pair.
EntryRaises(e) == Len(e) # 2 \/ \E i \in 1..Len(e) : ~e[i].int

\* dict(pairs): a key given more than once keeps the value given last
DictOf(entries) ==
    LET keys == { entries[i][1].v : i \in 1..Len(entries) }
        last(k) == CHOOSE i \in 1..Len(entries) :
                      /\ entries[i][1].v = k
                      /\ \A j \in (i+1)..Len(entries) : entries[j][1].v # k
    IN  [k \in keys |-> entries[last(k)][2].v]

\* get_page_info: any exception is caught and page_info keeps its None
ParsePageInfo(resp) ==
    IF ~resp.ok \/ \E i \in 1..Len(resp.entries) : EntryRaises(resp.entries[i])
    THEN NonePageInfo
    ELSE [is_none |-> FALSE, dict |-> DictOf(resp.entries)]

(* ------------------------------- state --------------------------------- *)
VARIABLES
    pc,             \* "new" (line 48), "constructing", "running", "crashed", "exited"
    page,           \* self.page
    sub_page,       \* self.sub_page
    current_input,  \* self.current_input
    page_info,      \* self.page_info
    history,        \* self.history, a sequence of <<page, sub_page>>
    cmd,            \* the handler that ran last: [name, number]
    loads,          \* the calls of load made by that handler, in order
    fetched,        \* the <<page, sub_page>> documents it asked urlopen for
    error,          \* the exception that ended the process, or "none"
    steps,          \* key commands handled since startup, saturating
    clock,          \* display_clock ran when the last handler returned
    prev,           \* <<page, sub_page, history>> as the last handler that
                    \* loaded with history found them, << >> otherwise
    document,       \* get_page_info on its own: the pages.js response
    children,       \* display_page on its own: txt.children
    width,          \* display_page on its own: self.width
    lines,          \* display_page on its own: the list `lines`
    classes,        \* classes_to_color_formatter on its own: its argument
    formatter       \* classes_to_color_formatter on its own: its result

\* the variables of the functions that are also run on their own
render == <<document, children, width, lines, classes, formatter>>

vars == <<pc, page, sub_page, current_input, page_info, history,
          cmd, loads, fetched, error, steps, clock, prev, render>>

\* outcomes of urlopen + BeautifulSoup + display_page inside load
FetchResults == {"ok", "URLError", "ValueError"}

Cmd(name) == [name |-> name, number |-> 0]

(* ---------------------------- Teletext.load ---------------------------- *)
\* mutant: the visit is recorded without its sub page
PushHistory_first(hist, no_history) ==
    IF no_history THEN hist ELSE Append(hist, <<page, 1>>)

\* mutant: the no_history flag read the wrong way round
PushHistory_inverted(hist, no_history) ==
    IF no_history THEN Append(hist, <<page, sub_page>>) ELSE hist

\* lines 170-171
PushHistory(hist, no_history) ==
    IF no_history THEN hist ELSE Append(hist, <<page, sub_page>>)

\* mutant: the else branch that resets the sub page to 1 is missing
ChooseSubPage_keep(info, p, sp) ==
    IF sp # NoSubPage /\ 1 <= sp /\ sp <= info[p] THEN sp ELSE sub_page

\* lines 175-178: the sub page chosen for a page of the index
ChooseSubPage(info, p, sp) ==
    IF sp # NoSubPage /\ 1 <= sp /\ sp <= info[p] THEN sp ELSE 1

\* mutant: an unknown page leaves the viewer where it is
LoadTarget_stay(info, p, sp) ==
    IF p \in DOMAIN info
    THEN <<p, IF sp # NoSubPage /\ 1 <= sp /\ sp <= info[p] THEN sp ELSE 1>>
    ELSE <<page, sub_page>>

\* lines 173-182: the <<page, sub_page>> load settles on
LoadTarget(info, p, sp) ==
    IF p \in DOMAIN info
    THEN <<p, ChooseSubPage(info, p, sp)>>
    ELSE <<START_PAGE, 1>>

\* mutant: a failed fetch is issued a second time
Load_retry(hist, p, sp, no_history, res) ==
    /\ history' = IF no_history THEN hist ELSE Append(hist, <<page, sub_page>>)
    /\ loads' = <<[page |-> p, sub_page |-> sp, no_history |-> no_history]>>
    /\ IF page_info.is_none
       THEN /\ UNCHANGED <<page, sub_page>>
            /\ fetched' = << >>
            /\ error' = "TypeError"
            /\ pc' = "crashed"
       ELSE /\ page' = LoadTarget(page_info.dict, p, sp)[1]
            /\ sub_page' = LoadTarget(page_info.dict, p, sp)[2]
            /\ fetched' = IF res = "ok"
                          THEN << <<page', sub_page'>> >>
                          ELSE << <<page', sub_page'>>, <<page', sub_page'>> >>
            /\ error' = IF res = "ok" THEN "none" ELSE res
            /\ pc' = IF res = "ok" THEN "running" ELSE "crashed"

LoadCall(p, sp, no_history) == [page |-> p, sub_page |-> sp, no_history |-> no_history]

\* load(p, sp, no_history) called with self.history = hist; res is what the
\* fetch and display of the chosen document do.
Load(hist, p, sp, no_history, res) ==
    /\ history' = PushHistory(hist, no_history)
    /\ loads' = <<LoadCall(p, sp, no_history)>>
    /\ IF page_info.is_none
       THEN \* `page in None` raises TypeError at line 173
            /\ UNCHANGED <<page, sub_page>>
            /\ fetched' = << >>
            /\ error' = "TypeError"
            /\ pc' = "crashed"
       ELSE /\ page' = LoadTarget(page_info.dict, p, sp)[1]
            /\ sub_page' = LoadTarget(page_info.dict, p, sp)[2]
            /\ fetched' = << <<page', sub_page'>> >>
            /\ error' = IF res = "ok" THEN "none" ELSE res
            /\ pc' = IF res = "ok" THEN "running" ELSE "crashed"

\* __init__ line 52 and handle_events lines 251 and 277: display_clock runs
\* when what came before it returned
Clock == clock' = (pc' = "running")

\* the handler called load with history recording / did not
Remember == prev' = <<page, sub_page, history>>
Forget == prev' = << >>

(* ------------------------------ startup -------------------------------- *)
\* the fields as __init__ lines 35-48 set them
Fields ==
    /\ page = START_PAGE
    /\ sub_page = 1
    /\ current_input = << >>
    /\ page_info = NonePageInfo
    /\ history = << >>
    /\ cmd = Cmd("none")
    /\ loads = << >>
    /\ fetched = << >>
    /\ error = "none"
    /\ steps = 0
    /\ clock = FALSE
    /\ prev = << >>

\* nothing is being rendered or parsed on its own
RenderIdle ==
    /\ document = [ok |-> FALSE, entries |-> << >>]
    /\ children = << >>
    /\ width = 0
    /\ lines = << >>
    /\ classes = << >>
    /\ formatter = << >>

Init ==
    /\ pc = "new"
    /\ Fields
    /\ RenderIdle

\* __init__ line 50: get_page_info()
GetPageInfo ==
    /\ pc = "new"
    /\ \E resp \in Responses : page_info' = ParsePageInfo(resp)
    /\ pc' = "constructing"
    /\ UNCHANGED <<page, sub_page, current_input, history, cmd, loads,
                   fetched, error, steps, clock, prev, render>>

\* __init__ line 51: load(start_page)
StartupLoad ==
    /\ pc = "constructing"
    /\ \E res \in FetchResults :
          Load(history, START_PAGE, NoSubPage, FALSE, res)
    /\ cmd' = Cmd("init")
    /\ Clock
    /\ Remember
    /\ UNCHANGED <<current_input, page_info, steps, render>>

(* --------------------------- key handlers ------------------------------ *)
\* handle_events dispatched a navigation key
Counted == steps' = IF steps < MaxSteps THEN steps + 1 ELSE steps

\* the handler called nothing that loads
NoLoad ==
    /\ loads' = << >>
    /\ fetched' = << >>

\* line 199: reduce(lambda a, b: a*10+b, current_input)
PageNumber(input) == (input[1] * 10 + input[2]) * 10 + input[3]

\* line 200 runs only when load returned
InputAfterLoad(input, res) == IF res = "ok" THEN << >> ELSE input

\* load_number(number), lines 190-200
LoadNumber(number) ==
    /\ pc = "running"
    /\ LET input == Append(current_input, number) IN
       IF Len(input) = 3
       THEN /\ Len(history) < MaxHistory
            /\ \E res \in FetchResults :
                  /\ Load(history, PageNumber(input), NoSubPage, FALSE, res)
                  /\ current_input' = InputAfterLoad(input, res)
       ELSE /\ current_input' = input
            /\ NoLoad
            /\ UNCHANGED <<page, sub_page, history, error, pc>>
    /\ cmd' = [name |-> "digit", number |-> number]
    /\ IF Len(current_input) + 1 = 3 THEN Remember ELSE Forget
    /\ Counted
    /\ Clock
    /\ UNCHANGED render
    /\ UNCHANGED page_info

\* load_previous, lines 202-206
LoadPrevious ==
    /\ pc = "running"
    /\ Len(history) < MaxHistory
    /\ \E res \in FetchResults : Load(history, page - 1, NoSubPage, FALSE, res)
    /\ cmd' = Cmd("previous")
    /\ Remember
    /\ Counted
    /\ Clock
    /\ UNCHANGED render
    /\ UNCHANGED <<current_input, page_info>>

\* load_next, lines 208-212
LoadNext ==
    /\ pc = "running"
    /\ Len(history) < MaxHistory
    /\ \E res \in FetchResults : Load(history, page + 1, NoSubPage, FALSE, res)
    /\ cmd' = Cmd("next")
    /\ Remember
    /\ Counted
    /\ Clock
    /\ UNCHANGED render
    /\ UNCHANGED <<current_input, page_info>>

\* mutant: from the first sub page the key asks for the last sub page of
\* the previous page
LoadPreviousSubPage_last ==
    /\ pc = "running"
    /\ Len(history) < MaxHistory
    /\ \E res \in FetchResults :
          IF sub_page > 1
          THEN Load(history, page, sub_page - 1, FALSE, res)
          ELSE Load(history, page - 1,
                    IF page - 1 \in DOMAIN page_info.dict
                    THEN page_info.dict[page - 1] ELSE NoSubPage,
                    FALSE, res)
    /\ cmd' = Cmd("previous_sub_page")
    /\ Remember
    /\ Counted
    /\ Clock
    /\ UNCHANGED render
    /\ UNCHANGED <<current_input, page_info>>

\* load_previous_sub_page, lines 214-221
LoadPreviousSubPage ==
    /\ pc = "running"
    /\ Len(history) < MaxHistory
    /\ \E res \in FetchResults :
          IF sub_page > 1
          THEN Load(history, page, sub_page - 1, FALSE, res)
          ELSE Load(history, page - 1, NoSubPage, FALSE, res)
    /\ cmd' = Cmd("previous_sub_page")
    /\ Remember
    /\ Counted
    /\ Clock
    /\ UNCHANGED render
    /\ UNCHANGED <<current_input, page_info>>

\* load_next_sub_page, lines 223-230; self.page_info[self.page] raises
\* KeyError when the current page is no key of the index
LoadNextSubPage ==
    /\ pc = "running"
    /\ Len(history) < MaxHistory
    /\ IF page \notin DOMAIN page_info.dict
       THEN /\ error' = "KeyError"
            /\ pc' = "crashed"
            /\ NoLoad
            /\ UNCHANGED <<page, sub_page, history>>
       ELSE \E res \in FetchResults :
               IF sub_page < page_info.dict[page]
               THEN Load(history, page, sub_page + 1, FALSE, res)
               ELSE Load(history, page + 1, NoSubPage, FALSE, res)
    /\ cmd' = Cmd("next_sub_page")
    /\ IF page \in DOMAIN page_info.dict THEN Remember ELSE Forget
    /\ Counted
    /\ Clock
    /\ UNCHANGED render
    /\ UNCHANGED <<current_input, page_info>>

\* mutant: the replay is loaded without no_history=True
GoBackInHistory_pushes ==
    /\ pc = "running"
    /\ IF history = << >>
       THEN /\ NoLoad
            /\ UNCHANGED <<page, sub_page, history, error, pc>>
       ELSE \E res \in FetchResults :
               Load(SubSeq(history, 1, Len(history) - 1),
                    history[Len(history)][1], history[Len(history)][2],
                    FALSE, res)
    /\ cmd' = Cmd("go_back")
    /\ Forget
    /\ Counted
    /\ Clock
    /\ UNCHANGED render
    /\ UNCHANGED <<current_input, page_info>>

\* go_back_in_history, lines 232-240: pop() on the empty list raises the
\* IndexError the handler swallows; what load raises is not an IndexError
GoBackInHistory ==
    /\ pc = "running"
    /\ IF history = << >>
       THEN /\ NoLoad
            /\ UNCHANGED <<page, sub_page, history, error, pc>>
       ELSE \E res \in FetchResults :
               Load(SubSeq(history, 1, Len(history) - 1),
                    history[Len(history)][1], history[Len(history)][2],
                    TRUE, res)
    /\ cmd' = Cmd("go_back")
    /\ Forget
    /\ Counted
    /\ Clock
    /\ UNCHANGED render
    /\ UNCHANGED <<current_input, page_info>>

\* mutant: the idle tick reloads the page on display
IdleTick_reload ==
    /\ pc = "running"
    /\ cmd' = Cmd("tick")
    /\ \E res \in FetchResults : Load(history, page, sub_page, TRUE, res)
    /\ Forget
    /\ UNCHANGED <<current_input, page_info, steps, render>>
    /\ Clock

\* handle_events lines 250-252: inkey(1) timed out, only the clock is drawn
IdleTick ==
    /\ pc = "running"
    /\ cmd' = Cmd("tick")
    /\ NoLoad
    /\ Forget
    /\ UNCHANGED <<page, sub_page, current_input, page_info, history,
                   error, pc, steps, render>>
    /\ Clock

\* handle_events lines 254-276: a key outside the table runs dummy()
UnknownKey ==
    /\ pc = "running"
    /\ cmd' = Cmd("unknown")
    /\ NoLoad
    /\ Forget
    /\ UNCHANGED <<page, sub_page, current_input, page_info, history,
                   error, pc, steps, render>>
    /\ Clock

\* handle_events line 258: escape runs sys.exit
Quit ==
    /\ pc = "running"
    /\ cmd' = Cmd("quit")
    /\ pc' = "exited"
    /\ NoLoad
    /\ Clock
    /\ Forget
    /\ UNCHANGED <<page, sub_page, current_input, page_info, history,
                   error, steps, render>>

Next ==
    \/ GetPageInfo
    \/ StartupLoad
    \/ \E number \in 0..MaxDigit : LoadNumber(number)
    \/ LoadPrevious
    \/ LoadNext
    \/ LoadPreviousSubPage
    \/ LoadNextSubPage
    \/ GoBackInHistory
    \/ IdleTick
    \/ UnknownKey
    \/ Quit

Spec == Init /\ [][Next]_vars

(* ------------------- display_page: the line wrapping -------------------- *)
\* txt.children holds at most MaxRuns elements
MaxRuns == 3
\* the text of an element has at most MaxText characters
MaxText == 3
\* self.width is drawn from 1..MaxWidth and APP_WIDTH, the program's own
MaxWidth == 3
APP_WIDTH == 40

\* An element of txt.children: its tag name and len(element.text). A string
\* between two tags is a child too; its name is not 'b'.
Elements ==
    { [name |-> "b", text |-> n] : n \in 0..MaxText }
        \cup { [name |-> "other", text |-> 1] }

SeqsUpTo(S, n) == UNION { [1..k -> S] : k \in 0..n }

\* Lines hold the elements themselves; the model names an element by its
\* position in txt.children.
\* lines 130-131: reduce(operator.add, map(lambda a: len(a.text), line), 0)
RECURSIVE LineLength(_, _)
LineLength(ch, line) ==
    IF line = << >> THEN 0
    ELSE ch[Head(line)].text + LineLength(ch, Tail(line))

\* mutant: the new line is started without the element that did not fit
WrapStep_drop(ch, w, acc, i) ==
    IF ch[i].name = "b"
    THEN IF LineLength(ch, acc.current_line) + ch[i].text > w
         THEN [lines |-> Append(acc.lines, acc.current_line),
               current_line |-> << >>]
         ELSE [lines |-> acc.lines,
               current_line |-> Append(acc.current_line, i)]
    ELSE acc

\* mutant: only the element's own length is compared with the width
WrapStep_own(ch, w, acc, i) ==
    IF ch[i].name = "b"
    THEN IF ch[i].text > w
         THEN [lines |-> Append(acc.lines, acc.current_line),
               current_line |-> <<i>>]
         ELSE [lines |-> acc.lines,
               current_line |-> Append(acc.current_line, i)]
    ELSE acc

\* lines 129-134: one turn of the loop over txt.children
WrapStep(ch, w, acc, i) ==
    IF ch[i].name = "b"
    THEN IF LineLength(ch, acc.current_line) + ch[i].text > w
         THEN [lines |-> Append(acc.lines, acc.current_line),
               current_line |-> <<i>>]
         ELSE [lines |-> acc.lines,
               current_line |-> Append(acc.current_line, i)]
    ELSE acc

\* lines 128-134: the loop, from element i on
RECURSIVE WrapLoop(_, _, _, _)
WrapLoop(ch, w, acc, i) ==
    IF i > Len(ch) THEN acc
    ELSE WrapLoop(ch, w, WrapStep(ch, w, acc, i), i + 1)

\* lines 126-135: the list `lines` display_page prints
WrapLines(ch, w) ==
    LET acc == WrapLoop(ch, w, [lines |-> << >>, current_line |-> << >>], 1)
    IN  Append(acc.lines, acc.current_line)

WrapInit ==
    /\ pc = "display_page"
    /\ Fields
    /\ children \in SeqsUpTo(Elements, MaxRuns)
    /\ width \in (1..MaxWidth) \cup {APP_WIDTH}
    /\ lines = << >>
    /\ document = [ok |-> FALSE, entries |-> << >>]
    /\ classes = << >>
    /\ formatter = << >>

\* display_page lines 126-135
DisplayPage ==
    /\ pc = "display_page"
    /\ lines' = WrapLines(children, width)
    /\ pc' = "displayed"
    /\ UNCHANGED <<page, sub_page, current_input, page_info, history, cmd,
                   loads, fetched, error, steps, clock, prev,
                   document, children, width, classes, formatter>>

WrapNext == DisplayPage

WrapSpec == WrapInit /\ [][WrapNext]_vars

(* ---------------------- classes_to_color_formatter --------------------- *)
\* the classes argument holds at most MaxClasses class names
MaxClasses == 3

\* A class name is its sequence of characters.
Digits == {"0", "1", "2", "3", "4", "5", "6", "7"}

\* lines 80-89
colors ==
    [d \in Digits |->
        CASE d = "0" -> "black"
          [] d = "1" -> "red"
          [] d = "2" -> "green"
          [] d = "3" -> "yellow"
          [] d = "4" -> "blue"
          [] d = "5" -> "magenta"
          [] d = "6" -> "cyan"
          [] d = "7" -> "white"]

\* lines 95 and 97: the two sets of recognized names
BackgroundClasses == { <<"b", d>> : d \in Digits }
ForegroundClasses == { <<"f", d>> : d \in Digits }

\* the names offered to the model: the recognized ones and some others
ClassNames ==
    BackgroundClasses \cup ForegroundClasses
        \cup { <<"f", "8">>, <<"x", "1">>, <<"b">> }

\* mutant: the two kinds of class are mixed up
ColorStep_swapped(acc, class_) ==
    IF class_ \in BackgroundClasses
    THEN [acc EXCEPT !.fgc = class_[2]]
    ELSE IF class_ \in ForegroundClasses
         THEN [acc EXCEPT !.bgc = class_[2]]
         ELSE acc

\* lines 94-98: one turn of the loop over classes
ColorStep(acc, class_) ==
    IF class_ \in BackgroundClasses
    THEN [acc EXCEPT !.bgc = class_[2]]
    ELSE IF class_ \in ForegroundClasses
         THEN [acc EXCEPT !.fgc = class_[2]]
         ELSE acc

RECURSIVE ColorLoop(_, _)
ColorLoop(acc, cls) ==
    IF cls = << >> THEN acc
    ELSE ColorLoop(ColorStep(acc, Head(cls)), Tail(cls))

\* lines 91-102: the formatter f'{colors[fgc]}_on_{colors[bgc]}', kept as
\* its two colour names
ClassesToColorFormatter(cls) ==
    LET acc == ColorLoop([fgc |-> "7", bgc |-> "0"], cls)
    IN  [foreground |-> colors[acc.fgc], background |-> colors[acc.bgc]]

ColorInit ==
    /\ pc = "classes_to_color_formatter"
    /\ Fields
    /\ classes \in SeqsUpTo(ClassNames, MaxClasses)
    /\ formatter = << >>
    /\ document = [ok |-> FALSE, entries |-> << >>]
    /\ children = << >>
    /\ width = 0
    /\ lines = << >>

\* classes_to_color_formatter(classes), lines 69-102
ResolveColor ==
    /\ pc = "classes_to_color_formatter"
    /\ formatter' = ClassesToColorFormatter(classes)
    /\ pc' = "formatted"
    /\ UNCHANGED <<page, sub_page, current_input, page_info, history, cmd,
                   loads, fetched, error, steps, clock, prev,
                   document, children, width, lines, classes>>

ColorNext == ResolveColor

ColorSpec == ColorInit /\ [][ColorNext]_vars

(* ------------------- get_page_info on its own document ------------------ *)
\* the listing holds at most MaxEntries entries
MaxEntries == 3

\* the entries offered: pairs of integers, and entries int() or dict()
\* reject
ListingEntries ==
    { Entry(100, 1), Entry(100, 2), Entry(101, 1),
      <<BadTok, Tok(1)>>, <<Tok(101), BadTok>>, <<Tok(102)>> }

\* data_string.split(',') never returns an empty list
Documents ==
    { [ok |-> FALSE, entries |-> << >>] }
        \cup { [ok |-> TRUE, entries |-> es] :
                 es \in SeqsUpTo(ListingEntries, MaxEntries) \ { << >> } }

IndexInit ==
    /\ pc = "get_page_info"
    /\ Fields
    /\ document \in Documents
    /\ children = << >>
    /\ width = 0
    /\ lines = << >>
    /\ classes = << >>
    /\ formatter = << >>

\* get_page_info(), lines 147-160, on the document drawn
LoadIndex ==
    /\ pc = "get_page_info"
    /\ page_info' = ParsePageInfo(document)
    /\ pc' = "got_page_info"
    /\ UNCHANGED <<page, sub_page, current_input, history, cmd,
                   loads, fetched, error, steps, clock, prev, render>>

IndexNext == LoadIndex

IndexSpec == IndexInit /\ [][IndexNext]_vars

(* ------------------------------ properties ----------------------------- *)
IndexDict == page_info.dict
AllCountsPositive == \A p \in DOMAIN IndexDict : IndexDict[p] >= 1
TopOfHistory == history[Len(history)]

\* C1: over an index whose sub-page counts are all >= 1, whenever the
\* current page is a key of the index the current sub page lies between 1
\* and that page's sub-page count.
SubPageClamp ==
    (~page_info.is_none /\ AllCountsPositive /\ page \in DOMAIN IndexDict)
        => (1 <= sub_page /\ sub_page <= IndexDict[page])

\* C1 witness: a navigation left a page with one sub page more than the
\* page it arrived at, in an index with positive counts.
SubPageClampWitness ==
    /\ pc = "running"
    /\ ~page_info.is_none /\ AllCountsPositive
    /\ cmd.name \in {"next", "previous", "next_sub_page"}
    /\ page \in DOMAIN IndexDict
    /\ history # << >>
    /\ TopOfHistory[2] = 2
    /\ IndexDict[page] = 1

\* C2: when the fetch or the parse of a navigation fails, page, sub page
\* and history are what they were before the navigation was attempted.
FetchFailureRollback ==
    [][(pc = "running" /\ error' \in {"URLError", "ValueError"})
          => (page' = page /\ sub_page' = sub_page /\ history' = history)]_vars

\* C3: from the state after startup, going to page 101 (next page, or the
\* digits 1 0 1) and then going back gives (100, 1) and an empty history.
HistoryRoundTrip ==
    [][(/\ pc = "running"
        /\ page = 101
        /\ \/ steps = 1 /\ cmd.name = "next"
           \/ steps = 3 /\ cmd.name = "digit" /\ loads # << >>
        /\ cmd'.name = "go_back"
        /\ pc' = "running")
          => (page' = 100 /\ sub_page' = 1 /\ history' = << >>)]_vars

\* C4: a digit key that finds two pending digits makes exactly one load,
\* of page 100*d1 + 10*d2 + d3, and leaves no digit pending; a digit key
\* that finds fewer makes no load, appends itself to the pending digits
\* and leaves page, sub page and history alone.
DigitAccumulation ==
    [][(pc = "running" /\ cmd'.name = "digit")
          => IF Len(current_input) = 2
             THEN /\ loads' = <<[page |-> 100 * current_input[1]
                                            + 10 * current_input[2]
                                            + cmd'.number,
                                 sub_page |-> NoSubPage,
                                 no_history |-> FALSE]>>
                  /\ current_input' = << >>
             ELSE /\ loads' = << >>
                  /\ fetched' = << >>
                  /\ current_input' = Append(current_input, cmd'.number)
                  /\ UNCHANGED <<page, sub_page, history>>]_vars

\* the page a digit, previous-page or next-page key asks for
RequestedPage(name, number) ==
    CASE name = "digit" -> 100 * current_input[1] + 10 * current_input[2] + number
      [] name = "previous" -> page - 1
      [] name = "next" -> page + 1

\* C5: a completed digit entry, previous page and next page ask for page P
\* (the digits' number, page - 1, page + 1, with no wraparound) and land
\* on (P, 1) when P is a key of the index and on (START_PAGE, 1) when not;
\* any load that names a sub page in 1..count of a known page lands on it.
GoToPageRule ==
    [][(pc = "running" /\ loads' # << >>)
          => /\ (cmd'.name \in {"previous", "next"}
                    \/ (cmd'.name = "digit" /\ Len(current_input) = 2))
                => LET P == RequestedPage(cmd'.name, cmd'.number) IN
                   /\ loads'[1].page = P
                   /\ IF P \in DOMAIN IndexDict
                      THEN page' = P /\ sub_page' = 1
                      ELSE page' = 100 /\ sub_page' = 1
             /\ LET P == loads'[1].page
                    sp == loads'[1].sub_page IN
                IF P \in DOMAIN IndexDict
                THEN /\ page' = P
                     /\ sub_page' = IF sp \in 1..IndexDict[P] THEN sp ELSE 1
                ELSE page' = 100 /\ sub_page' = 1]_vars

\* C5 witness: next page from the last page of the index asked for a page
\* that is no key and the viewer fell back to the start page.
GoToPageRuleWitness ==
    /\ pc = "running"
    /\ cmd.name = "next"
    /\ loads # << >>
    /\ loads[1].page = 103
    /\ loads[1].page \notin DOMAIN IndexDict
    /\ page = 100 /\ sub_page = 1
    /\ TopOfHistory = <<102, 2>>

\* the key handled in this step navigates
Navigates ==
    \/ cmd'.name \in {"previous", "next", "previous_sub_page"}
    \/ cmd'.name = "digit" /\ Len(current_input) = 2
    \/ cmd'.name = "next_sub_page" /\ page \in DOMAIN IndexDict

\* C6: every navigation but go-back (completed digit entry, previous or
\* next page, previous or next sub page) appends exactly the pre-transition
\* (page, sub page) to the history and keeps the older entries; go-back
\* appends nothing.
HistoryPushRule ==
    [][pc = "running"
          => /\ Navigates => history' = Append(history, <<page, sub_page>>)
             /\ cmd'.name = "go_back"
                => /\ Len(history') <= Len(history)
                   /\ history' = SubSeq(history, 1, Len(history'))]_vars

\* C6 witness: a next-sub-page key pushed the sub page it left on top of
\* two older entries.
HistoryPushRuleWitness ==
    /\ pc = "running"
    /\ cmd.name = "next_sub_page"
    /\ Len(history) = 3
    /\ TopOfHistory = <<page, sub_page - 1>>
    /\ sub_page = 2

\* C7: go-back on a non-empty history removes exactly the top entry
\* (p, s), makes (p, s) the current page and sub page and appends nothing;
\* on an empty history it changes nothing and fetches nothing.
GoBack ==
    [][(pc = "running" /\ cmd'.name = "go_back")
          => IF history # << >>
             THEN /\ history' = SubSeq(history, 1, Len(history) - 1)
                  /\ page' = TopOfHistory[1]
                  /\ sub_page' = TopOfHistory[2]
             ELSE /\ UNCHANGED <<page, sub_page, current_input, history,
                                 pc, error>>
                  /\ loads' = << >>
                  /\ fetched' = << >>]_vars

\* C7 witness: go-back returned to a second sub page from another page
\* and left older entries on the history.
GoBackWitness ==
    /\ pc = "running"
    /\ cmd.name = "go_back"
    /\ loads # << >>
    /\ loads[1].no_history
    /\ sub_page = 2
    /\ fetched = << <<page, 2>> >>
    /\ Len(history) = 2

\* the empty case of go-back: the key found no entry and loaded nothing
GoBackEmptyReached ==
    /\ pc = "running"
    /\ cmd.name = "go_back"
    /\ loads = << >>
    /\ history = << >>

\* C8: in every state the next-sub-page key moves to sub page + 1 of the
\* same page when the sub page is below the page's count, and otherwise
\* loads page + 1 and lands on (page + 1, 1) or, if that is no key of the
\* index, on (START_PAGE, 1).
NextSubPage ==
    [][(pc = "running" /\ cmd'.name = "next_sub_page")
          => IF page \in DOMAIN IndexDict /\ sub_page < IndexDict[page]
             THEN page' = page /\ sub_page' = sub_page + 1
             ELSE /\ loads' = <<[page |-> page + 1, sub_page |-> NoSubPage,
                                 no_history |-> FALSE]>>
                  /\ page' = (IF page + 1 \in DOMAIN IndexDict
                              THEN page + 1 ELSE 100)
                  /\ sub_page' = 1]_vars

\* C9: the previous-sub-page key moves to sub page - 1 of the same page
\* when the sub page is above 1, and otherwise lands on sub page 1 of
\* page - 1 or, if that is no key of the index, on (START_PAGE, 1).
PreviousSubPage ==
    [][(pc = "running" /\ cmd'.name = "previous_sub_page")
          => IF sub_page > 1
             THEN page' = page /\ sub_page' = sub_page - 1
             ELSE /\ page' = (IF page - 1 \in DOMAIN IndexDict
                              THEN page - 1 ELSE 100)
                  /\ sub_page' = 1]_vars

\* C9 witness: from the first sub page the key landed on sub page 1 of a
\* previous page that has two sub pages.
PreviousSubPageWitness ==
    /\ pc = "running"
    /\ cmd.name = "previous_sub_page"
    /\ history # << >>
    /\ TopOfHistory = <<page + 1, 1>>
    /\ sub_page = 1
    /\ page \in DOMAIN IndexDict
    /\ IndexDict[page] = 2

\* C10: when the index could not be loaded the startup load does not end
\* the process: it falls back to the start page, sub page 1, and fetches
\* that document.
IndexUnavailable ==
    (cmd.name = "init" /\ page_info.is_none)
        => /\ error # "TypeError"
           /\ page = START_PAGE /\ sub_page = 1
           /\ fetched = << <<START_PAGE, 1>> >>

\* C11: a fetch or parse failure of a navigation command leaves the
\* command loop running, and the process ends only by the quit key.
NoFatalError ==
    /\ (cmd.name # "init" /\ error \in {"URLError", "ValueError"})
          => pc = "running"
    /\ (cmd.name # "init" /\ pc \in {"crashed", "exited"})
          => cmd.name = "quit"

\* C12: after every command that was processed to its end at most two
\* digits are pending, and none is pending after the third digit of an
\* entry or after a previous/next page, previous/next sub page or go-back
\* key.
PendingDigitHygiene ==
    [][(pc = "running" /\ pc' = "running")
          => /\ Len(current_input') <= 2
             /\ (cmd'.name = "digit" /\ Len(current_input) = 2)
                   => current_input' = << >>
             /\ cmd'.name \in {"previous", "next", "previous_sub_page",
                               "next_sub_page", "go_back"}
                   => current_input' = << >>]_vars

\* C17: an idle tick and an unrecognized key leave page, sub page, pending
\* digits and history as they are, call no load, fetch nothing, keep the
\* loop running and redraw the clock.
NonNavigationEvents ==
    [][(pc = "running" /\ cmd'.name \in {"tick", "unknown"})
          => /\ UNCHANGED <<page, sub_page, current_input, history>>
             /\ loads' = << >>
             /\ fetched' = << >>
             /\ pc' = "running"
             /\ clock']_vars

\* C17 witness: an idle tick passed while digits were pending and the
\* history held visits.
NonNavigationEventsWitness ==
    /\ pc = "running"
    /\ cmd.name = "tick"
    /\ Len(current_input) = 2
    /\ Len(history) >= 2
    /\ page # START_PAGE
    /\ clock

\* the key handled in this step gets as far as fetching a document
Fetches ==
    \/ Navigates
    \/ cmd'.name = "go_back" /\ history # << >>

\* the key handled in this step fetches nothing
FetchesNothing ==
    \/ cmd'.name \in {"tick", "unknown"}
    \/ cmd'.name = "digit" /\ Len(current_input) < 2
    \/ cmd'.name = "go_back" /\ history = << >>

\* C18: every command fetches at most one document: exactly one, the
\* (page, sub page) the transition settled on, when it navigates, and none
\* for a pending digit, go-back on an empty history, an idle tick or an
\* unrecognized key; after a failed fetch nothing is fetched again.
OneFetchPerCommand ==
    [][/\ pc = "running"
          => /\ Len(fetched') <= 1
             /\ Fetches => fetched' = << <<page', sub_page'>> >>
             /\ FetchesNothing => fetched' = << >>
       /\ error \in {"URLError", "ValueError"} => fetched' = fetched]_vars

\* C18 witness: the fetch of a next-page key failed after one request for
\* the page the key settled on.
OneFetchPerCommandWitness ==
    /\ pc = "crashed"
    /\ error = "URLError"
    /\ cmd.name = "next"
    /\ fetched = << <<page, sub_page>> >>
    /\ page = 101

\* C19: after any navigation key whose load succeeded (third digit,
\* previous/next page, previous/next sub page), go-back gives back the
\* page, the sub page and the history the key found.
UndoLaw ==
    [][(/\ pc = "running"
        /\ cmd.name \in {"digit", "previous", "next", "previous_sub_page",
                         "next_sub_page"}
        /\ loads # << >>
        /\ cmd'.name = "go_back")
          => <<page', sub_page', history'>> = prev]_vars

\* C19 witness: go-back returned to the second sub page of the last page
\* of the index, which only a navigation away from it can have pushed.
UndoLawWitness ==
    /\ pc = "running"
    /\ cmd.name = "go_back"
    /\ loads = <<[page |-> 102, sub_page |-> 2, no_history |-> TRUE]>>
    /\ page = 102 /\ sub_page = 2
    /\ Len(history) = 2

(* ----------------------- properties of the wrapping -------------------- *)
\* the positions of the runs (the 'b' elements) of txt.children, in order
RunsOf(ch) ==
    LET IsRun(i) == ch[i].name = "b"
    IN  SelectSeq([i \in 1..Len(ch) |-> i], IsRun)

RECURSIVE Flatten(_)
Flatten(ls) == IF ls = << >> THEN << >> ELSE Head(ls) \o Flatten(Tail(ls))

RECURSIVE TextSum(_, _)
TextSum(ch, line) ==
    IF line = << >> THEN 0 ELSE ch[line[1]].text + TextSum(ch, Tail(line))

LongestRun(ch) ==
    IF RunsOf(ch) = << >> THEN 0
    ELSE CHOOSE n \in 0..MaxText + 1 :
            /\ \E k \in 1..Len(RunsOf(ch)) : ch[RunsOf(ch)[k]].text = n
            /\ \A k \in 1..Len(RunsOf(ch)) : ch[RunsOf(ch)[k]].text <= n

\* C13: for a width that is at least the longest run's length, every run
\* is placed whole in exactly one line, and the runs of the lines, read in
\* order, are exactly the input runs in order.
WrapNonSplit ==
    (pc = "displayed" /\ width >= LongestRun(children))
        => /\ Flatten(lines) = RunsOf(children)
           /\ \A r \in 1..Len(RunsOf(children)) :
                 Cardinality({ <<l, k>> \in (1..Len(lines)) \X (1..MaxRuns + 1) :
                                 /\ k <= Len(lines[l])
                                 /\ lines[l][k] = RunsOf(children)[r] }) = 1

\* C13 witness: three runs that all fit the width were spread over more
\* than one line.
WrapNonSplitWitness ==
    /\ pc = "displayed"
    /\ width >= LongestRun(children)
    /\ Len(RunsOf(children)) = 3
    /\ Len(lines) >= 2
    /\ \E l \in 1..Len(lines) : Len(lines[l]) = 2

\* C14: every line but a line made of one run longer than the width holds
\* runs whose text lengths sum to at most the width.
WrapWidthBound ==
    pc = "displayed"
        => \A l \in 1..Len(lines) :
              \/ Len(lines[l]) = 1 /\ children[lines[l][1]].text > width
              \/ TextSum(children, lines[l]) <= width

\* C14 witness: one line is filled to the width by two runs and another
\* is a single run longer than the width.
WrapWidthBoundWitness ==
    /\ pc = "displayed"
    /\ \E l \in 1..Len(lines) :
          Len(lines[l]) = 2 /\ TextSum(children, lines[l]) = width
    /\ \E l \in 1..Len(lines) :
          Len(lines[l]) = 1 /\ children[lines[l][1]].text > width

\* C20: the wrapper outputs at least one line, and a line without runs
\* only when the input holds no run, the output then being that one line.
WrapEmptyLine ==
    pc = "displayed"
        => /\ Len(lines) >= 1
           /\ (\E l \in 1..Len(lines) : lines[l] = << >>)
                 => (RunsOf(children) = << >> /\ lines = << << >> >>)

(* ------------------- properties of the colour resolver ----------------- *)
\* the colour a recognized class names by its digit
PaletteColor(class_) ==
    CASE class_[2] = "0" -> "black"
      [] class_[2] = "1" -> "red"
      [] class_[2] = "2" -> "green"
      [] class_[2] = "3" -> "yellow"
      [] class_[2] = "4" -> "blue"
      [] class_[2] = "5" -> "magenta"
      [] class_[2] = "6" -> "cyan"
      [] class_[2] = "7" -> "white"

IsKind(class_, letter) ==
    /\ Len(class_) = 2
    /\ class_[1] = letter
    /\ class_[2] \in {"0", "1", "2", "3", "4", "5", "6", "7"}

\* the colour of the last class of the kind, or the default
LastOfKind(cls, letter, default) ==
    IF \E i \in 1..Len(cls) : IsKind(cls[i], letter)
    THEN LET last == CHOOSE i \in 1..Len(cls) :
                        /\ IsKind(cls[i], letter)
                        /\ \A j \in (i+1)..Len(cls) : ~IsKind(cls[j], letter)
         IN  PaletteColor(cls[last])
    ELSE default

\* C15: the foreground is the colour of the last class among f0..f7, the
\* background that of the last among b0..b7 (0..7 being black, red, green,
\* yellow, blue, magenta, cyan, white); other classes are ignored and the
\* defaults are white on black.
ColorPrecedence ==
    pc = "formatted"
        => /\ formatter.foreground = LastOfKind(classes, "f", "white")
           /\ formatter.background = LastOfKind(classes, "b", "black")

\* C15 witness: the classes f1, b0, f3 gave yellow on black.
ColorPrecedenceWitness ==
    /\ pc = "formatted"
    /\ classes = << <<"f", "1">>, <<"b", "0">>, <<"f", "3">> >>
    /\ formatter = [foreground |-> "yellow", background |-> "black"]

\* the defaults: no class at all gave white on black
ColorDefaultsReached ==
    /\ pc = "formatted"
    /\ classes = << >>
    /\ formatter = [foreground |-> "white", background |-> "black"]

(* ---------------------- properties of the index load ------------------- *)
IsPair(e) == Len(e) = 2 /\ e[1].int /\ e[2].int

\* an entry with a non-integer key or value, or a key given twice
Malformed(es) ==
    \/ \E i \in 1..Len(es) : ~IsPair(es[i])
    \/ \E i, j \in 1..Len(es) : i # j /\ es[i][1].v = es[j][1].v

\* C16: a listing with a malformed entry (non-integer key or value, or a
\* key that appears more than once) installs no mapping at all; a
\* well-formed listing installs exactly its key:value pairs.
IndexAllOrNothing ==
    pc = "got_page_info"
        => IF ~document.ok \/ Malformed(document.entries)
           THEN page_info.is_none
           ELSE /\ ~page_info.is_none
                /\ DOMAIN page_info.dict
                      = { document.entries[i][1].v :
                             i \in 1..Len(document.entries) }
                /\ \A i \in 1..Len(document.entries) :
                      page_info.dict[document.entries[i][1].v]
                         = document.entries[i][2].v
====
